---- MODULE Spec2Model ----
(***************************************************************************)
(* A model of yahoo_finance_scraper.py: the value normalizer               *)
(* (format_tag_val, format_number, format_string), the row extractor       *)
(* (get_tags, scrape_row), the record builder (scrape_page), the resume    *)
(* logic (get_tickers, remove_scraped_tickers) and the append loop         *)
(* (scrape_pages).                                                         *)
(*                                                                         *)
(* Texts are sequences of one-character strings.  A Python value is a      *)
(* record [type, s, m, e]: a str carries its text in s, a float is the     *)
(* exact decimal m * 10^e (m without trailing zeros), None is the value    *)
(* dict.get returns for a missing key.  Binary rounding of floats is not   *)
(* modelled.                                                               *)
(***************************************************************************)
EXTENDS Integers, Sequences, FiniteSets, TLC

VARIABLES
    tickers_txt,   \* TICKERS_PATH: [exists, lines]
    data_file,     \* data_path: [exists, lines], one dumped record per line
    web,           \* the fetch result of every symbol fetched so far
    pc,            \* position of the process: "idle", "loop", "write"
    tickers,       \* scrape_pages: the pending list returned by get_tickers
    idx,           \* scrape_pages: position of the for loop in tickers
    scraped_page,  \* scrape_pages: the record built for tickers[idx]
    store0,        \* history: lines of data_file when the current run began
    line_ticker,   \* history: for every line of data_file, the symbol it was built for
    fetched,       \* history: number of scrape_page calls of the current run
    last_run,      \* history: how the previous run ended
    cell_in,       \* format_tag_val: the text of the tag
    cell_out,      \* format_tag_val: the value returned, or the exception
    row_in,        \* scrape_row: the texts of the td cells of the row
    row_out,       \* scrape_row: the dict returned, or the exception
    rem_in,        \* remove_scraped_tickers: [tickers, lines]
    rem_out        \* remove_scraped_tickers: the list returned, or the exception

vars == <<tickers_txt, data_file, web, pc, tickers, idx, scraped_page, store0,
          line_ticker, fetched, last_run, cell_in, cell_out, row_in, row_out,
          rem_in, rem_out>>

pipeline_vars == <<tickers_txt, data_file, web, pc, tickers, idx, scraped_page,
                   store0, line_ticker, fetched, last_run>>

cell_vars == <<cell_in, cell_out>>

row_vars == <<row_in, row_out>>

rem_vars == <<rem_in, rem_out>>

other_vars == <<cell_vars, row_vars, rem_vars>>

-----------------------------------------------------------------------------
(* Bounds *)

MaxLen == 3        \* longest enumerated cell text
MaxWatch == 2      \* longest enumerated watchlist
MaxLines == 4      \* most lines of the day's store
MaxRemLines == 2   \* most store lines handed to remove_scraped_tickers alone
MaxCells == 3      \* most td cells of an enumerated row

-----------------------------------------------------------------------------
(* Python values *)

PyStr(s) == [type |-> "str", s |-> s, m |-> 0, e |-> 0]

RECURSIVE Normalize(_, _)
Normalize(m, e) ==
    IF m = 0 THEN [m |-> 0, e |-> 0]
    ELSE IF m % 10 = 0 THEN Normalize(m \div 10, e + 1)
    ELSE [m |-> m, e |-> e]

PyFloat(m, e) ==
    LET n == Normalize(m, e)
    IN  [type |-> "float", s |-> <<>>, m |-> n.m, e |-> n.e]

PyNone == [type |-> "None", s |-> <<>>, m |-> 0, e |-> 0]

\* the outcome of a call that raises ValueError
ValueError == [type |-> "raised", s |-> <<>>, m |-> 0, e |-> 0]

Truthy(v) ==
    CASE v.type = "str" -> v.s # <<>>
      [] v.type = "float" -> v.m # 0
      [] OTHER -> FALSE

-----------------------------------------------------------------------------
(* str methods *)

Digits == {"0", "1", "2", "3", "4", "5", "6", "7", "8", "9"}

DigitVal(c) ==
    CASE c = "0" -> 0 [] c = "1" -> 1 [] c = "2" -> 2 [] c = "3" -> 3
      [] c = "4" -> 4 [] c = "5" -> 5 [] c = "6" -> 6 [] c = "7" -> 7
      [] c = "8" -> 8 [] c = "9" -> 9

DigitChar(n) ==
    CASE n = 0 -> "0" [] n = 1 -> "1" [] n = 2 -> "2" [] n = 3 -> "3"
      [] n = 4 -> "4" [] n = 5 -> "5" [] n = 6 -> "6" [] n = 7 -> "7"
      [] n = 8 -> "8" [] n = 9 -> "9"

Upper == {"A", "B", "C", "D", "E", "F", "G", "H", "I", "J", "K", "L", "M",
          "N", "O", "P", "Q", "R", "S", "T", "U", "V", "W", "X", "Y", "Z"}

Lower == {"a", "b", "c", "d", "e", "f", "g", "h", "i", "j", "k", "l", "m",
          "n", "o", "p", "q", "r", "s", "t", "u", "v", "w", "x", "y", "z"}

LowerOf(c) ==
    CASE c = "A" -> "a" [] c = "B" -> "b" [] c = "C" -> "c" [] c = "D" -> "d"
      [] c = "E" -> "e" [] c = "F" -> "f" [] c = "G" -> "g" [] c = "H" -> "h"
      [] c = "I" -> "i" [] c = "J" -> "j" [] c = "K" -> "k" [] c = "L" -> "l"
      [] c = "M" -> "m" [] c = "N" -> "n" [] c = "O" -> "o" [] c = "P" -> "p"
      [] c = "Q" -> "q" [] c = "R" -> "r" [] c = "S" -> "s" [] c = "T" -> "t"
      [] c = "U" -> "u" [] c = "V" -> "v" [] c = "W" -> "w" [] c = "X" -> "x"
      [] c = "Y" -> "y" [] c = "Z" -> "z" [] OTHER -> c

\* str.lower()
ToLower(s) == [k \in 1..Len(s) |-> LowerOf(s[k])]

RECURSIVE LStrip(_)
LStrip(s) == IF s # <<>> /\ Head(s) = " " THEN LStrip(Tail(s)) ELSE s

RECURSIVE RStrip(_)
RStrip(s) ==
    IF s # <<>> /\ s[Len(s)] = " " THEN RStrip(SubSeq(s, 1, Len(s) - 1)) ELSE s

\* str.strip()
Strip(s) == RStrip(LStrip(s))

\* str.replace(old, new): every non-overlapping occurrence, left to right
RECURSIVE Replace(_, _, _)
Replace(s, old, new) ==
    IF Len(s) < Len(old) THEN s
    ELSE IF SubSeq(s, 1, Len(old)) = old
         THEN new \o Replace(SubSeq(s, Len(old) + 1, Len(s)), old, new)
         ELSE <<Head(s)>> \o Replace(Tail(s), old, new)

\* the value of a run of decimal digits
RECURSIVE DigitsVal(_)
DigitsVal(s) ==
    IF s = <<>> THEN 0
    ELSE 10 * DigitsVal(SubSeq(s, 1, Len(s) - 1)) + DigitVal(s[Len(s)])

AllIn(s, S) == \A k \in 1..Len(s) : s[k] \in S

-----------------------------------------------------------------------------
(* format_string *)

format_string(raw_val) ==
    LET a == Replace(raw_val, <<"N", "/", "A">>, <<>>)
        b == Replace(a, <<"%">>, <<"p", "c", "t">>)
        c == Replace(b, <<"-">>, <<>>)
        d == Replace(c, <<"(">>, <<>>)
        f == Replace(d, <<")">>, <<>>)
        g == Replace(f, <<",">>, <<>>)
        h == Replace(g, <<"S", "&", "P">>, <<"s", "n", "p">>)
        i == ToLower(Strip(h))
    IN  Replace(i, <<" ">>, <<"_">>)

-----------------------------------------------------------------------------
(* format_number *)

format_number(number, sign, suffix) ==
    LET n1 == IF sign = "-" THEN PyFloat(number.m * (-1), number.e) ELSE number
        n2 == IF suffix = "k" THEN PyFloat(n1.m, n1.e + 3) ELSE n1
        n3 == IF suffix = "M" THEN PyFloat(n2.m, n2.e + 6) ELSE n2
        n4 == IF suffix = "B" THEN PyFloat(n3.m, n3.e + 9) ELSE n3
    IN  IF suffix = "%" THEN PyFloat(n4.m, n4.e - 2) ELSE n4

-----------------------------------------------------------------------------
(* The numeric pattern: sign, number, suffix *)

NumSign(s) == IF s # <<>> /\ Head(s) \in {"-", "+"} THEN Head(s) ELSE ""

\* the text after the optional sign
NumRest(s) == IF NumSign(s) # "" THEN Tail(s) ELSE s

NumSuffix(s) ==
    LET a == NumRest(s)
    IN  IF a # <<>> /\ a[Len(a)] \in {"k", "M", "B", "%"} THEN a[Len(a)] ELSE ""

\* the text left for the group "number" once sign and suffix are taken
NumBody(s) ==
    LET a == NumRest(s)
    IN  IF NumSuffix(s) # "" THEN SubSeq(a, 1, Len(a) - 1) ELSE a

\* one or more of digit and comma, an optional point, any number of digits
IsNumBody(b) ==
    \E k \in 1..Len(b) :
        /\ AllIn(SubSeq(b, 1, k), Digits \cup {","})
        /\ \/ k = Len(b)
           \/ /\ b[k + 1] = "."
              /\ AllIn(SubSeq(b, k + 2, Len(b)), Digits)
           \/ AllIn(SubSeq(b, k + 1, Len(b)), Digits)

NumMatch(s) == IsNumBody(NumBody(s))

\* float(text) of a text of digits with at most one point
FloatParses(t) ==
    \E k \in 1..Len(t) : t[k] \in Digits

ParseFloat(t) ==
    LET dot == IF \E k \in 1..Len(t) : t[k] = "."
               THEN CHOOSE k \in 1..Len(t) : t[k] = "."
               ELSE Len(t) + 1
        int == SubSeq(t, 1, dot - 1)
        frac == SubSeq(t, dot + 1, Len(t))
    IN  PyFloat(DigitsVal(int \o frac), 0 - Len(frac))

-----------------------------------------------------------------------------
(* The date pattern, strptime and strftime *)

\* capital, two small letters, space, one or two digits, comma, space, four digits
DateMatch(s) ==
    /\ Len(s) \in {11, 12}
    /\ s[1] \in Upper /\ s[2] \in Lower /\ s[3] \in Lower /\ s[4] = " "
    /\ LET d == Len(s) - 10      \* number of day digits
       IN  /\ AllIn(SubSeq(s, 5, 4 + d), Digits)
           /\ s[5 + d] = "," /\ s[6 + d] = " "
           /\ AllIn(SubSeq(s, 7 + d, Len(s)), Digits)

\* %b
MonthNum(w) ==
    CASE w = <<"J", "a", "n">> -> 1  [] w = <<"F", "e", "b">> -> 2
      [] w = <<"M", "a", "r">> -> 3  [] w = <<"A", "p", "r">> -> 4
      [] w = <<"M", "a", "y">> -> 5  [] w = <<"J", "u", "n">> -> 6
      [] w = <<"J", "u", "l">> -> 7  [] w = <<"A", "u", "g">> -> 8
      [] w = <<"S", "e", "p">> -> 9  [] w = <<"O", "c", "t">> -> 10
      [] w = <<"N", "o", "v">> -> 11 [] w = <<"D", "e", "c">> -> 12
      [] OTHER -> 0

IsLeap(y) == (y % 4 = 0 /\ y % 100 # 0) \/ y % 400 = 0

DaysIn(mo, y) ==
    CASE mo = 2 -> IF IsLeap(y) THEN 29 ELSE 28
      [] mo \in {4, 6, 9, 11} -> 30
      [] OTHER -> 31

DateParts(s) ==
    LET d == Len(s) - 10
    IN  [month |-> MonthNum(SubSeq(s, 1, 3)),
         day |-> DigitsVal(SubSeq(s, 5, 4 + d)),
         year |-> DigitsVal(SubSeq(s, 7 + d, Len(s)))]

\* datetime.strptime(s, "%b %d, %Y") returns
StrptimeOk(s) ==
    LET p == DateParts(s)
    IN  /\ p.month # 0
        /\ p.year >= 1
        /\ p.day >= 1 /\ p.day <= DaysIn(p.month, p.year)

TwoDigits(n) == <<DigitChar(n \div 10), DigitChar(n % 10)>>

\* strftime("%Y-%m-%d") for a year of four digits
Strftime(p) ==
    TwoDigits(p.year \div 100) \o TwoDigits(p.year % 100) \o <<"-">>
        \o TwoDigits(p.month) \o <<"-">> \o TwoDigits(p.day)

-----------------------------------------------------------------------------
(* format_tag_val *)

format_tag_val(text) ==
    LET raw_val == Strip(text)
    IN  IF NumMatch(raw_val)
        THEN LET number == Replace(NumBody(raw_val), <<",">>, <<>>)
             IN  IF FloatParses(number)
                 THEN format_number(ParseFloat(number), NumSign(raw_val),
                                    NumSuffix(raw_val))
                 ELSE ValueError
        ELSE IF DateMatch(raw_val)
        THEN IF StrptimeOk(raw_val)
             THEN PyStr(Strftime(DateParts(raw_val)))
             ELSE ValueError
        ELSE PyStr(format_string(raw_val))

-----------------------------------------------------------------------------
(* dict: the pairs in insertion order *)

EmptyDict == <<>>

DictHas(d, k) == \E j \in 1..Len(d) : d[j][1] = k

\* dict.get(k)
DictGet(d, k) ==
    IF DictHas(d, k) THEN d[CHOOSE j \in 1..Len(d) : d[j][1] = k][2] ELSE PyNone

\* d[k] = v, as dict.update does for every pair of its argument
DictSet(d, k, v) ==
    IF DictHas(d, k)
    THEN [j \in 1..Len(d) |-> IF d[j][1] = k THEN <<k, v>> ELSE d[j]]
    ELSE Append(d, <<k, v>>)

RECURSIVE DictUpdate(_, _)
DictUpdate(d, other) ==
    IF other = <<>> THEN d
    ELSE DictUpdate(DictSet(d, other[1][1], other[1][2]), Tail(other))

-----------------------------------------------------------------------------
(* get_tags and scrape_row; a row is the sequence of the texts of its td cells *)

get_tags(row) == IF Len(row) # 2 THEN <<>> ELSE row

\* scrape_row with the field name canonicalized as a string only
scrape_row_KeyByString(row) ==
    LET raw_tags == get_tags(row)
        vals == [j \in 1..Len(raw_tags) |->
                    IF j = 1 THEN PyStr(format_string(Strip(raw_tags[j])))
                    ELSE format_tag_val(raw_tags[j])]
    IN  IF \E j \in 1..Len(vals) : vals[j].type = "raised"
        THEN [raised |-> TRUE, dict |-> EmptyDict]
        ELSE IF vals # <<>> /\ vals[1] # PyStr(<<>>) /\ vals[2] # PyStr(<<>>)
        THEN [raised |-> FALSE, dict |-> <<(<<vals[1], vals[2]>>)>>]
        ELSE [raised |-> FALSE, dict |-> EmptyDict]

scrape_row(row) ==
    LET raw_tags == get_tags(row)
        vals == [j \in 1..Len(raw_tags) |-> format_tag_val(raw_tags[j])]
    IN  IF \E j \in 1..Len(vals) : vals[j].type = "raised"
        THEN [raised |-> TRUE, dict |-> EmptyDict]
        ELSE IF vals # <<>> /\ vals[1] # PyStr(<<>>) /\ vals[2] # PyStr(<<>>)
        THEN [raised |-> FALSE, dict |-> <<(<<vals[1], vals[2]>>)>>]
        ELSE [raised |-> FALSE, dict |-> EmptyDict]

-----------------------------------------------------------------------------
(* json.dumps and json.loads *)

RECURSIVE NatText(_)
NatText(n) ==
    IF n < 10 THEN <<DigitChar(n)>> ELSE NatText(n \div 10) \o <<DigitChar(n % 10)>>

RECURSIVE Zeros(_)
Zeros(n) == IF n <= 0 THEN <<>> ELSE <<"0">> \o Zeros(n - 1)

\* repr of a float below 1e16 in magnitude and no smaller than 1e-4
float_repr(v) ==
    LET mag == IF v.m < 0 THEN 0 - v.m ELSE v.m
        sgn == IF v.m < 0 THEN <<"-">> ELSE <<>>
        ds == NatText(mag)
        body == IF v.e >= 0
                THEN ds \o Zeros(v.e) \o <<".", "0">>
                ELSE LET padded == Zeros(1 - v.e - Len(ds)) \o ds
                         cut == Len(padded) + v.e
                     IN  SubSeq(padded, 1, cut) \o <<".">>
                             \o SubSeq(padded, cut + 1, Len(padded))
    IN  sgn \o body

\* json.dumps(d): every key becomes a string, every pair is written in order
json_dumps(d) ==
    [j \in 1..Len(d) |->
        <<IF d[j][1].type = "float" THEN PyStr(float_repr(d[j][1])) ELSE d[j][1],
          d[j][2]>>]

\* json.loads(line): the last pair of a repeated key wins
json_loads(line) == DictUpdate(EmptyDict, line)

TickerKey == PyStr(<<"t", "i", "c", "k", "e", "r">>)

DateKey == PyStr(<<"d", "a", "t", "e", "_", "a", "c", "c", "e", "s", "s", "e", "d">>)

-----------------------------------------------------------------------------
(* remove_scraped_tickers *)

\* list.remove(x): the first occurrence goes, the rest keeps its order
ListRemove(l, x) ==
    LET j == CHOOSE j \in 1..Len(l) : l[j] = x /\ \A h \in 1..(j - 1) : l[h] # x
    IN  SubSeq(l, 1, j - 1) \o SubSeq(l, j + 1, Len(l))

InList(l, x) == \E j \in 1..Len(l) : l[j] = x

RECURSIVE remove_scraped_tickers(_, _)
remove_scraped_tickers(tks, lines) ==
    IF lines = <<>> THEN [raised |-> FALSE, list |-> tks]
    ELSE LET scraped_ticker == DictGet(json_loads(Head(lines)), TickerKey)
         IN  IF Truthy(scraped_ticker)
             THEN IF scraped_ticker.type = "str" /\ InList(tks, scraped_ticker.s)
                  THEN remove_scraped_tickers(ListRemove(tks, scraped_ticker.s),
                                              Tail(lines))
                  ELSE [raised |-> TRUE, list |-> <<>>]
             ELSE remove_scraped_tickers(tks, Tail(lines))

-----------------------------------------------------------------------------
(* get_page_rows and scrape_page *)

DATE_TODAY == <<"2", "0", "2", "0", "-", "1", "2", "-", "3", "1">>

\* a fetch result: found is response.url = url, rows are the tr of every tbody
get_page_rows(page) == IF ~page.found THEN <<>> ELSE page.rows

\* the for loop of scrape_page
RECURSIVE ScanRows(_, _)
ScanRows(d, rows) ==
    IF rows = <<>> THEN [raised |-> FALSE, dict |-> d]
    ELSE LET scraped_row == scrape_row(Head(rows))
         IN  IF scraped_row.raised THEN [raised |-> TRUE, dict |-> EmptyDict]
             ELSE ScanRows(DictUpdate(d, scraped_row.dict), Tail(rows))

\* scrape_page with date_accessed set once a row has been extracted
scrape_page_DateIfExtracted(ticker, page) ==
    LET d0 == <<(<<TickerKey, PyStr(ticker)>>)>>
        rows == get_page_rows(page)
        r == ScanRows(d0, rows)
    IN  IF ~r.raised /\ Len(r.dict) > 1
        THEN [raised |-> FALSE,
              dict |-> DictSet(r.dict, DateKey, PyStr(DATE_TODAY))]
        ELSE r

scrape_page(ticker, page) ==
    LET d0 == <<(<<TickerKey, PyStr(ticker)>>)>>
        rows == get_page_rows(page)
        d1 == IF rows # <<>> THEN DictSet(d0, DateKey, PyStr(DATE_TODAY)) ELSE d0
    IN  ScanRows(d1, rows)

-----------------------------------------------------------------------------
(* get_tickers *)

DefaultTickers == <<<<"X">>, <<"L", "O", "L">>, <<"G", "M">>>>

\* TICKERS_PATH after get_tickers
TickersFileAfter(file) ==
    IF ~file.exists THEN [exists |-> TRUE, lines |-> DefaultTickers] ELSE file

get_tickers(file, data) ==
    LET lines == TickersFileAfter(file).lines
        tks == [j \in 1..Len(lines) |-> Strip(lines[j])]
    IN  IF data.exists THEN remove_scraped_tickers(tks, data.lines)
        ELSE [raised |-> FALSE, list |-> tks]

-----------------------------------------------------------------------------
(* Inputs *)

SeqsUpTo(S, n) == UNION {[1..k -> S] : k \in 0..n}

\* symbols a watchlist is drawn from; the empty one is a blank line
Symbols == {<<>>, <<"A">>, <<"b">>}

Watchlists == SeqsUpTo(Symbols, MaxWatch)

Row(name, val) == <<name, val>>

Pages ==
    { [found |-> FALSE, rows |-> <<>>],
      [found |-> TRUE, rows |-> <<>>],
      [found |-> TRUE, rows |-> <<Row(<<"M", "a", "r", "k", "e", "t", " ", "C", "a", "p">>, <<"1", ".", "5", "B">>)>>],
      [found |-> TRUE, rows |-> <<Row(<<"T", "i", "c", "k", "e", "r">>, <<"0">>)>>],
      [found |-> TRUE, rows |-> <<Row(<<"T", "i", "c", "k", "e", "r">>, <<"b">>)>>],
      [found |-> TRUE, rows |-> <<(<<<<"x">>>>)>>],
      [found |-> TRUE, rows |-> <<Row(<<"N", "/", "A">>, <<"5">>), Row(<<"N", "a", "m", "e">>, <<"N", "/", "A">>)>>],
      [found |-> TRUE, rows |-> <<Row(<<"2", "0", "2", "0">>, <<"1", "2", ".", "5", "%">>)>>],
      [found |-> TRUE, rows |-> <<Row(<<"F", "l", "o", "a", "t">>, <<",">>)>>],
      [found |-> TRUE, rows |-> <<(<<<<"x">>>>), Row(<<"D", "a", "t", "e", " ", "A", "c", "c", "e", "s", "s", "e", "d">>, <<"D", "e", "c", " ", "1", ",", " ", "2", "0", "2", "0">>)>>] }

Alphabet == {"0", "1", ",", ".", "-", "+", "%", "k", "B", " ", "a", "A"}

DateTexts ==
    { mo \o <<" ">> \o dd \o <<",", " ">> \o yy :
        mo \in {<<"J", "a", "n">>, <<"F", "e", "b">>, <<"D", "e", "c">>, <<"F", "o", "o">>},
        dd \in {<<"0">>, <<"1">>, <<"0", "9">>, <<"2", "9">>, <<"3", "0">>, <<"3", "1">>, <<"3", "2">>},
        yy \in {<<"2", "0", "2", "0">>, <<"2", "0", "2", "1">>, <<"0", "0", "0", "0">>} }

OtherTexts ==
    { <<"N", "/", "A">>,
      <<"S", "&", "P", " ", "5", "0", "0">>,
      <<"M", "a", "r", "k", "e", "t", " ", "C", "a", "p">>,
      <<"(", "x", ")">>,
      <<"-", "1", ",", "2", "3", "4", ".", "5", "k">>,
      <<"1", "2", ".", "3", "%">>,
      <<"2", "B">>,
      <<"D", "e", "c", " ", "3", "1", ",", " ", "2", "0", "2", "0", " ">>,
      <<"d", "e", "c", " ", "3", "1", ",", " ", "2", "0", "2", "0">>,
      <<"%", " ", "H", "e", "l", "d", " ", "b", "y", " ", "I", "n", "s", "i", "d", "e", "r", "s">>,
      <<"T", "i", "c", "k", "e", "r">>,
      <<"1", ".", ".">>,
      <<" ", "5", " ", "M", " ">> }

CellTexts == SeqsUpTo(Alphabet, MaxLen) \cup DateTexts \cup OtherTexts

RowCells ==
    { <<>>,
      <<"N", "/", "A">>,
      <<"M", "a", "r", "k", "e", "t", " ", "C", "a", "p">>,
      <<"T", "i", "c", "k", "e", "r">>,
      <<"2", "0", "2", "0">>,
      <<"1", ".", "5", "B">>,
      <<"-", "5", "%">>,
      <<"D", "e", "c", " ", "3", "1", ",", " ", "2", "0", "2", "0">>,
      <<"F", "e", "b", " ", "3", "0", ",", " ", "2", "0", "2", "1">>,
      <<",">>,
      <<"S", "&", "P", " ", "5", "0", "0">> }

RowsIn == SeqsUpTo(RowCells, MaxCells)

\* lines of a store: dumped records
RemLines ==
    { json_dumps(<<(<<TickerKey, PyStr(t)>>)>>) : t \in Symbols \cup {<<"Z">>} }
    \cup { json_dumps(<<(<<TickerKey, PyFloat(0, 0)>>)>>),
           json_dumps(<<(<<TickerKey, PyFloat(5, 0)>>)>>),
           json_dumps(<<(<<DateKey, PyStr(DATE_TODAY)>>)>>) }

-----------------------------------------------------------------------------
(* Initial states *)

NoRun == [valid |-> FALSE, status |-> "none", pending |-> <<>>, k |-> 0,
          store0 |-> <<>>]

PipelineIdle ==
    /\ data_file = [exists |-> FALSE, lines |-> <<>>]
    /\ web = <<>>
    /\ pc = "idle"
    /\ tickers = <<>>
    /\ idx = 0
    /\ scraped_page = EmptyDict
    /\ store0 = <<>>
    /\ line_ticker = <<>>
    /\ fetched = 0
    /\ last_run = NoRun

CellIdle == cell_in = <<>> /\ cell_out = PyNone

RowIdle == row_in = <<>> /\ row_out = [state |-> "idle", dict |-> EmptyDict]

RemIdle ==
    /\ rem_in = [tickers |-> <<>>, lines |-> <<>>]
    /\ rem_out = [state |-> "idle", list |-> <<>>]

\* the day's store does not exist yet; the watchlist is any file, or missing
Init ==
    /\ \/ tickers_txt = [exists |-> FALSE, lines |-> <<>>]
       \/ \E w \in Watchlists : tickers_txt = [exists |-> TRUE, lines |-> w]
    /\ PipelineIdle
    /\ CellIdle /\ RowIdle /\ RemIdle

InitCell ==
    /\ tickers_txt = [exists |-> FALSE, lines |-> <<>>]
    /\ PipelineIdle
    /\ cell_in \in CellTexts /\ cell_out = PyNone
    /\ RowIdle /\ RemIdle

InitRow ==
    /\ tickers_txt = [exists |-> FALSE, lines |-> <<>>]
    /\ PipelineIdle
    /\ CellIdle
    /\ row_in \in RowsIn /\ row_out = [state |-> "idle", dict |-> EmptyDict]
    /\ RemIdle

InitRem ==
    /\ tickers_txt = [exists |-> FALSE, lines |-> <<>>]
    /\ PipelineIdle
    /\ CellIdle /\ RowIdle
    /\ \E w \in Watchlists, ls \in SeqsUpTo(RemLines, MaxRemLines) :
           rem_in = [tickers |-> w, lines |-> ls]
    /\ rem_out = [state |-> "idle", list |-> <<>>]

-----------------------------------------------------------------------------
(* scrape_pages *)

InRun == pc \in {"loop", "write"}

Ended(status) ==
    [valid |-> TRUE, status |-> status, pending |-> tickers, k |-> idx - 1,
     store0 |-> store0]

\* the locals of a process that has exited
Exit ==
    /\ pc' = "idle"
    /\ tickers' = <<>>
    /\ idx' = 0
    /\ scraped_page' = EmptyDict
    /\ store0' = <<>>
    /\ fetched' = 0

\* tickers = get_tickers(data_path); a ValueError of list.remove ends the process.
\* A run starts only while the store has room for the whole watchlist (MaxLines).
StartRun ==
    /\ pc = "idle"
    /\ Len(data_file.lines) + Len(TickersFileAfter(tickers_txt).lines) <= MaxLines
    /\ tickers_txt' = TickersFileAfter(tickers_txt)
    /\ LET r == get_tickers(tickers_txt, data_file)
       IN  IF r.raised
           THEN /\ last_run' = [NoRun EXCEPT !.status = "ValueError"]
                /\ UNCHANGED <<pc, tickers, idx, store0, fetched>>
           ELSE /\ pc' = "loop"
                /\ tickers' = r.list
                /\ idx' = 1
                /\ store0' = data_file.lines
                /\ fetched' = 0
                /\ UNCHANGED last_run
    /\ UNCHANGED <<data_file, web, scraped_page, line_ticker>>
    /\ UNCHANGED other_vars

\* scraped_page = scrape_page(ticker); the same symbol is served the same page
ScrapePage ==
    /\ pc = "loop"
    /\ idx <= Len(tickers)
    /\ \E page \in Pages :
        /\ tickers[idx] \in DOMAIN web => page = web[tickers[idx]]
        /\ web' = [t \in DOMAIN web \cup {tickers[idx]} |->
                      IF t = tickers[idx] THEN page ELSE web[t]]
        /\ LET r == scrape_page(tickers[idx], page)
           IN  IF r.raised
               THEN /\ Exit
                    /\ last_run' = Ended("ValueError")
               ELSE /\ pc' = "write"
                    /\ scraped_page' = r.dict
                    /\ fetched' = fetched + 1
                    /\ UNCHANGED <<tickers, idx, store0, last_run>>
    /\ UNCHANGED <<tickers_txt, data_file, line_ticker>>
    /\ UNCHANGED other_vars

\* the write with the file opened for writing from its start
AppendRecord_Rewrite ==
    /\ pc = "write"
    /\ data_file' = [exists |-> TRUE,
                     lines |-> <<json_dumps(scraped_page)>> \o data_file.lines]
    /\ line_ticker' = <<tickers[idx]>> \o line_ticker
    /\ idx' = idx + 1
    /\ pc' = "loop"
    /\ scraped_page' = EmptyDict
    /\ UNCHANGED <<tickers_txt, web, tickers, store0, fetched, last_run>>
    /\ UNCHANGED other_vars

\* with data_path.open('a') as f: f.write(json.dumps(scraped_page) + "\n")
AppendRecord ==
    /\ pc = "write"
    /\ data_file' = [exists |-> TRUE,
                     lines |-> Append(data_file.lines, json_dumps(scraped_page))]
    /\ line_ticker' = Append(line_ticker, tickers[idx])
    /\ idx' = idx + 1
    /\ pc' = "loop"
    /\ scraped_page' = EmptyDict
    /\ UNCHANGED <<tickers_txt, web, tickers, store0, fetched, last_run>>
    /\ UNCHANGED other_vars

\* the for loop is exhausted and scrape_pages returns
EndRun ==
    /\ pc = "loop"
    /\ idx > Len(tickers)
    /\ Exit
    /\ last_run' = Ended("completed")
    /\ UNCHANGED <<tickers_txt, data_file, web, line_ticker>>
    /\ UNCHANGED other_vars

\* the process is stopped, or requests.get or open raises, between two steps
Interrupt ==
    /\ InRun
    /\ idx <= Len(tickers)
    /\ Exit
    /\ last_run' = Ended("interrupted")
    /\ UNCHANGED <<tickers_txt, data_file, web, line_ticker>>
    /\ UNCHANGED other_vars

Next ==
    \/ StartRun
    \/ ScrapePage
    \/ AppendRecord
    \/ EndRun
    \/ Interrupt

Spec == Init /\ [][Next]_vars

-----------------------------------------------------------------------------
(* format_tag_val, scrape_row and remove_scraped_tickers on their own *)

FormatTagVal ==
    /\ cell_out = PyNone
    /\ cell_out' = format_tag_val(cell_in)
    /\ UNCHANGED <<cell_in, pipeline_vars, row_vars, rem_vars>>

SpecCell == InitCell /\ [][FormatTagVal]_vars

ScrapeRow ==
    /\ row_out.state = "idle"
    /\ LET r == scrape_row(row_in)
       IN  row_out' = [state |-> IF r.raised THEN "raised" ELSE "returned",
                       dict |-> r.dict]
    /\ UNCHANGED <<row_in, pipeline_vars, cell_vars, rem_vars>>

SpecRow == InitRow /\ [][ScrapeRow]_vars

RemoveScrapedTickers ==
    /\ rem_out.state = "idle"
    /\ LET r == remove_scraped_tickers(rem_in.tickers, rem_in.lines)
       IN  rem_out' = [state |-> IF r.raised THEN "raised" ELSE "returned",
                       list |-> r.list]
    /\ UNCHANGED <<rem_in, pipeline_vars, cell_vars, row_vars>>

SpecRem == InitRem /\ [][RemoveScrapedTickers]_vars

-----------------------------------------------------------------------------
(* Properties *)

Lines == data_file.lines

LineTicker(line) == DictGet(json_loads(line), TickerKey)

\* the line scrape_pages writes for symbol t, given the page t is served
RecordOf(t) == json_dumps(scrape_page(t, web[t]).dict)

RecordsOf(tks, n) == [j \in 1..n |-> RecordOf(tks[j])]

Rest(l, k) == SubSeq(l, k + 1, Len(l))

\* C1: a run that follows a completed run, on the same watchlist and store and
\* with the same pages, has an empty pending list, so it appends nothing.
C1_ResumeIdempotence ==
    (InRun /\ last_run.valid /\ last_run.status = "completed") => tickers = <<>>

\* C2: a run that follows a run stopped after k of its n pending symbols were
\* appended has exactly the remaining n-k symbols pending, in the same order.
C2_CrashSafety ==
    (InRun /\ last_run.valid) => tickers = Rest(last_run.pending, last_run.k)

\* C3: no two lines of the day's store carry the same ticker.
C3_UniqueSymbols ==
    \A i, j \in 1..Len(Lines) :
        i # j => LineTicker(Lines[i]) # LineTicker(Lines[j])

\* C4: during and after every run the store is the store the run found,
\* followed by the records of the first symbols of the pending list, in order,
\* and the record of a symbol is appended before the next symbol is fetched.
C4_AppendOnly ==
    /\ InRun =>
        /\ idx - 1 <= Len(tickers)
        /\ Lines = store0 \o RecordsOf(tickers, idx - 1)
        /\ fetched = IF pc = "write" THEN idx ELSE idx - 1
    /\ (pc = "idle" /\ last_run.valid) =>
        /\ last_run.k <= Len(last_run.pending)
        /\ Lines = last_run.store0 \o RecordsOf(last_run.pending, last_run.k)

\* a second run has appended a record behind the lines of an earlier run
C4_Witness ==
    /\ pc = "loop" /\ store0 # <<>> /\ idx >= 2
    /\ last_run.valid /\ last_run.status = "interrupted"

\* C5: a symbol without a page gets a record holding only the symbol, and no
\* later run fetches a symbol for which an earlier run appended such a record.
C5_NoPageProcessedOnce ==
    (pc = "write" /\ ~web[tickers[idx]].found) =>
        /\ scraped_page = <<(<<TickerKey, PyStr(tickers[idx])>>)>>
        /\ \A j \in 1..Len(store0) : line_ticker[j] # tickers[idx]

RowExtracted(page) ==
    \E j \in 1..Len(get_page_rows(page)) :
        scrape_row(get_page_rows(page)[j]).dict # EmptyDict

\* C6 as stated: a record has date_accessed only if a row of the page was
\* extracted into a field.
C6_DateOnlyIfExtracted ==
    pc = "write" =>
        (DictHas(scraped_page, DateKey) => RowExtracted(web[tickers[idx]]))

\* C6 amended: a record has date_accessed exactly when the page of its symbol
\* has at least one row, extracted or not; without a page or without rows the
\* record has none.
C6_DateIffRows ==
    /\ pc = "write" =>
        (DictHas(scraped_page, DateKey)
            <=> get_page_rows(web[tickers[idx]]) # <<>>)
    /\ \A j \in 1..Len(Lines) :
        DictHas(json_loads(Lines[j]), DateKey)
            <=> get_page_rows(web[line_ticker[j]]) # <<>>

\* a record with date_accessed built from a page none of whose rows was extracted
C6_Witness ==
    /\ pc = "write"
    /\ DictHas(scraped_page, DateKey)
    /\ ~RowExtracted(web[tickers[idx]])

\* C7: format_tag_val returns for every text, a number or a string.
C7_Total ==
    cell_out # PyNone => cell_out.type \in {"float", "str"}

\* C8 as stated: the key of the pair scrape_row produces is format_string of
\* the trimmed text of the first cell.
C8_KeyByFormatString ==
    (row_out.state = "returned" /\ row_out.dict # EmptyDict) =>
        row_out.dict[1][1] = PyStr(format_string(Strip(row_in[1])))

\* C8 amended: both cells go through the numeric, then date, then string
\* cascade; the key of a produced pair is a number when the first cell matches
\* the numeric pattern, the reformatted date when it matches the date pattern,
\* and format_string of its trimmed text otherwise.
C8_KeyByCascade ==
    (row_out.state = "returned" /\ row_out.dict # EmptyDict) =>
        LET key == row_out.dict[1][1]
            raw == Strip(row_in[1])
        IN  /\ Len(row_in) = 2
            /\ key.type = "float" <=> NumMatch(raw)
            /\ (~NumMatch(raw) /\ DateMatch(raw)) =>
                   key = PyStr(Strftime(DateParts(raw)))
            /\ (~NumMatch(raw) /\ ~DateMatch(raw)) =>
                   key = PyStr(format_string(raw))
            /\ row_out.dict[1][2] = format_tag_val(row_in[2])

\* a pair whose key is a number
C8_Witness ==
    /\ row_out.state = "returned"
    /\ row_out.dict # EmptyDict
    /\ row_out.dict[1][1].type = "float"

\* the list the claim describes: for every line in order, the first remaining
\* occurrence of its symbol is removed
RECURSIVE FirstMatchRemoval(_, _)
FirstMatchRemoval(tks, lines) ==
    IF lines = <<>> THEN tks
    ELSE LET t == LineTicker(Head(lines))
         IN  IF t.type = "str" /\ InList(tks, t.s)
             THEN FirstMatchRemoval(ListRemove(tks, t.s), Tail(lines))
             ELSE FirstMatchRemoval(tks, Tail(lines))

\* C9: remove_scraped_tickers returns, for every watchlist and store, the
\* watchlist without the first remaining occurrence of every stored symbol.
C9_RemoveCompletes ==
    rem_out.state # "idle" =>
        /\ rem_out.state = "returned"
        /\ rem_out.list = FirstMatchRemoval(rem_in.tickers, rem_in.lines)

\* C10: every line of the store carries, under 'ticker', the symbol it was
\* built for.
C10_TickerKept ==
    \A j \in 1..Len(Lines) : LineTicker(Lines[j]) = PyStr(line_ticker[j])

====
